---- MODULE Spec2Model ----
(***************************************************************************)
(* Subway-LiveIQ-Tool (src/main.py): the multi-account acquisition engine.  *)
(*                                                                         *)
(*   load_config_and_stores  bootstrap of the account/store directory      *)
(*   build_gui               start-up after bootstrap, store selection     *)
(*   open_view_window        one batch view: dispatch, worker pool, render *)
(*   fetch_data, log_error   one report fetch and the diagnostic log       *)
(*   flatten_json            the payload normalizer                        *)
(*                                                                         *)
(* Python values are modelled as follows.  A str that the code takes apart *)
(* or builds (a JSON key, a flattened path) is a sequence of one-character *)
(* strings; every other str is a TLA+ string.  A JSON value is a tagged    *)
(* record: [t |-> "num", n], [t |-> "str", s], [t |-> "arr", items] and    *)
(* [t |-> "obj", kv], kv being the dict's (key, value) pairs in insertion  *)
(* order with pairwise distinct keys.  A dict whose keys may be absent     *)
(* (an account entry) carries the set of its present keys in "keys".       *)
(***************************************************************************)
EXTENDS Integers, Sequences, FiniteSets, TLC

\* ----------------------------------------------------------------- bounds
MaxAccounts == 2      \* entries of config.json's "accounts" list
MaxRecs     == 2      \* records of one /api/Restaurants response, plus the store ids listed before it
MaxEntries  == 4      \* account entries of a configuration plus the records they list
MaxQueued   == 11     \* fetches submitted to the pool in the batch that fills it
MaxNodes    == 4      \* nodes (containers and scalars) of a flattened JSON value

\* ------------------------------------------------------------ JSON values
Num(n)      == [t |-> "num", n |-> n]
Str(s)      == [t |-> "str", s |-> s]
Arr(items)  == [t |-> "arr", items |-> items]
Obj(kv)     == [t |-> "obj", kv |-> kv]

IsDict(v)   == v.t = "obj"
IsList(v)   == v.t = "arr"

K_a      == <<"a">>
K_b      == <<"b">>
K_a_b    == <<"a", ".", "b">>
K_a_0    == <<"a", "[", "0", "]">>
K_c      == <<"c">>
K_empty  == <<>>
K_error  == <<"e", "r", "r", "o", "r">>
K_data   == <<"d", "a", "t", "a">>

\* dict: `k in d`, d[k] and d.get(k, default)
HasKey(d, k)  == \E i \in 1..Len(d.kv) : d.kv[i][1] = k
Lookup(d, k)  == d.kv[CHOOSE i \in 1..Len(d.kv) : d.kv[i][1] = k][2]
DictGet(d, k, default) == IF HasKey(d, k) THEN Lookup(d, k) ELSE default

\* str(i) for the array indexes the model reaches
Digit  == <<"0", "1", "2", "3", "4", "5", "6", "7", "8", "9">>
IntStr(i) == IF i < 10 THEN <<Digit[i + 1]>>
             ELSE <<Digit[(i \div 10) + 1], Digit[(i % 10) + 1]>>

\* ----------------------------------------------------------- flatten_json
\* The result dict of flatten_json is the sequence of its (path, value)
\* items in insertion order.

\* out[path] = value: a present key keeps its position and takes the value
DictSet(out, path, value) ==
    IF \E i \in 1..Len(out) : out[i][1] = path
    THEN [i \in 1..Len(out) |-> IF out[i][1] = path THEN <<path, value>> ELSE out[i]]
    ELSE Append(out, <<path, value>>)

RECURSIVE DictUpdate(_, _)
\* out.update(sub)
DictUpdate(out, sub) ==
    IF sub = <<>> THEN out
    ELSE DictUpdate(DictSet(out, sub[1][1], sub[1][2]), Tail(sub))

\* a mutant of KeyStep: the separator is left out
KeyStepNoSep(parent, k) == parent \o k

\* a mutant of KeyStep: the separator is written before the first key too
KeyStepLeadingSep(parent, k) == parent \o <<".">> \o k

\* f"{parent}{sep}{k}" if parent else k
KeyStep(parent, k) == IF parent # <<>> THEN parent \o <<".">> \o k ELSE k

\* a mutant of IndexStep: the index is left out of the path
IndexStepNoIndex(parent, i) == parent \o <<"[", "]">>

\* f"{parent}[{i}]", i counted from 0
IndexStep(parent, i) == parent \o <<"[">> \o IntStr(i) \o <<"]">>

RECURSIVE flatten_json(_, _)
RECURSIVE FlattenItems(_, _, _, _)
RECURSIVE FlattenElems(_, _, _, _)

\* for k, v in obj.items(): out.update(flatten_json(v, ...))
FlattenItems(kv, i, parent, out) ==
    IF i > Len(kv) THEN out
    ELSE FlattenItems(kv, i + 1, parent,
             DictUpdate(out, flatten_json(kv[i][2], KeyStep(parent, kv[i][1]))))

\* for i, v in enumerate(obj): out.update(flatten_json(v, ...))
FlattenElems(items, i, parent, out) ==
    IF i > Len(items) THEN out
    ELSE FlattenElems(items, i + 1, parent,
             DictUpdate(out, flatten_json(items[i], IndexStep(parent, i - 1))))

flatten_json(obj, parent) ==
    IF IsDict(obj) THEN FlattenItems(obj.kv, 1, parent, <<>>)
    ELSE IF IsList(obj) THEN FlattenElems(obj.items, 1, parent, <<>>)
    ELSE <<<<parent, obj>>>>

\* ------------------------------------------------ inputs of flatten_json
FlattenKeys    == {K_a, K_b, K_a_b, K_a_0, K_empty}
FlattenScalars == {Num(1), Num(2)}

\* {"a": {"b": 1}, "c": [10, 20]}
FlattenExample ==
    Obj(<< <<K_a, Obj(<< <<K_b, Num(1)>> >>)>>, <<K_c, Arr(<<Num(10), Num(20)>>)>> >>)

\* the sequences of n pairwise distinct keys
KeySeqs(n) == {ks \in [1..n -> FlattenKeys] : \A i, j \in 1..n : i # j => ks[i] # ks[j]}

\* the JSON values of exactly n nodes whose children are the forest f
Containers(f) ==
    {Arr(f)} \cup {Obj([i \in 1..Len(f) |-> <<ks[i], f[i]>>]) : ks \in KeySeqs(Len(f))}

\* the JSON values of k nodes, given tbl[m + 1] = the forests of m nodes for m < k
ValuesOfSize(k, tbl) ==
    (IF k = 1 THEN FlattenScalars ELSE {}) \cup UNION {Containers(g) : g \in tbl[k]}

RECURSIVE ForestTable(_)
\* <<the forests (sequences of JSON values) of 0 nodes in all, of 1 node, ..., of n nodes>>
ForestTable(n) ==
    IF n = 0 THEN << {<<>>} >>
    ELSE LET prev == ForestTable(n - 1)
             new  == UNION { { <<v>> \o f : v \in ValuesOfSize(k, prev), f \in prev[n - k + 1] }
                             : k \in 1..n }
         IN  Append(prev, new)

\* Forests[m + 1]: the forests of m nodes, for every m below MaxNodes
Forests == ForestTable(MaxNodes - 1)

\* the JSON values whose children are the forest g: a JSON value of at most
\* MaxNodes nodes is a scalar or a container over a forest of fewer nodes
JsonInputs(g) ==
    (IF g = <<>> THEN FlattenScalars ELSE {}) \cup Containers(g)

\* ------------------------------------------------------ program constants
\* ENDPOINTS: report name -> URL template (only the API path is kept)
ENDPOINTS ==
    [ep \in {"Sales Summary", "Daily Sales Summary", "Daily Timeclock",
             "Third Party Sales Summary", "Third Party Transaction Summary",
             "Transaction Summary", "Transaction Details"} |->
        CASE ep = "Sales Summary"                   -> "/api/SalesSummary"
          [] ep = "Daily Sales Summary"             -> "/api/DailySalesSummary"
          [] ep = "Daily Timeclock"                 -> "/api/DailyTimeclock"
          [] ep = "Third Party Sales Summary"       -> "/api/ThirdPartySalesSummary"
          [] ep = "Third Party Transaction Summary" -> "/api/ThirdPartyTransactionSummary"
          [] ep = "Transaction Summary"             -> "/api/TransactionSummary"
          [] ep = "Transaction Details"             -> "/api/TransactionDetails"]

\* ThreadPoolExecutor(max_workers=10)
max_workers == 10

\* DEBUG = False, in build_gui
DEBUG == FALSE

\* ------------------------------------------------------------ input sets
AccountNames == <<"A", "B", "C">>
StoreIds     == {"1", "2"}
\* the store ids "1", "2", ... of the account that fills the pool
PoolStoreIds == {ToString(n) : n \in 1..MaxQueued}
\* int(sid)
StoreNumber  == [s \in StoreIds \cup PoolStoreIds |->
                    CHOOSE n \in 1..MaxQueued : ToString(n) = s]

\* what one record of the /api/Restaurants response gives for "restaurantNumber":
\* a store id, no such field, or a JSON array/object (not hashable in Python)
NOFIELD      == "<no restaurantNumber>"
UNHASHABLE   == "<list or dict>"
RecordKinds  == StoreIds \cup {NOFIELD, UNHASHABLE}

\* a request that raises before a response body is in hand, by cause
RequestFailures == {"timeout", "transport", "http_status", "json_decode"}

\* an account entry of config.json; "keys" are the keys the dict holds
RequiredKeys == {"Name", "ClientID", "ClientKEY"}
Entry(i, n, ks) == [keys |-> ks, Name |-> n, ClientID |-> i, ClientKEY |-> i,
                    Status |-> "", StoreIDs |-> <<>>]
\* The i-th entry takes its name among the first i names: every pattern of
\* equal and different names among the entries is there, once.
EntriesAt(i) == {Entry(i, AccountNames[n], RequiredKeys) : n \in 1..i}
                \cup {Entry(i, "A", RequiredKeys \ {k}) : k \in RequiredKeys}
Configs == UNION { {c \in [1..n -> UNION {EntriesAt(i) : i \in 1..n}] :
                       \A i \in 1..n : c[i] \in EntriesAt(i)} : n \in 0..MaxAccounts }

\* the outcomes of the store-listing call of one account
SeqsUpTo(S, n) == UNION {[1..m -> S] : m \in 0..n}
DiscoveryOutcomes == {[ok |-> TRUE, recs |-> r] : r \in SeqsUpTo(RecordKinds, MaxRecs)}
                     \cup {[ok |-> FALSE, why |-> w] : w \in RequestFailures \cup {"bad_record"}}

\* the outcomes of the HTTP call of one report fetch
B_plain    == Obj(<< <<K_a, Num(1)>> >>)
B_envelope == Obj(<< <<K_data, Arr(<<Num(1)>>)>> >>)
B_errkey   == Obj(<< <<K_error, Str("none")>>, <<K_data, Num(1)>> >>)
B_array    == Arr(<<Num(1)>>)
FetchBodies == {B_plain, B_envelope, B_errkey, B_array}
FetchFailures == {"timeout"}
HttpOutcomes == {[ok |-> TRUE, body |-> b] : b \in FetchBodies}
                \cup {[ok |-> FALSE, why |-> w] : w \in FetchFailures}

\* the report names a view is asked for: one of the catalog, one not in it
ReportInputs == {"Sales Summary", "Hourly Sales"}

\* ---------------------------------------------------------------- state
VARIABLES
    pc,                 \* where the main thread is
    cfg,                \* cfg["accounts"]: the entries load_config_and_stores mutates in place
    bi,                 \* the entry its loop is at (from 1)
    config_accounts, account_store_map, all_stores, account_vars, store_vars,  \* the globals
    log,                \* error.log, one element per line written
    endpoint, stores,   \* the arguments of open_view_window
    futures,            \* what was submitted, in submission order (the values of `futures`)
    tasks,              \* per future: its state in the pool, its result, the HTTP outcome
    ac_first, ac_queue, \* as_completed: the futures done when it starts; those done later, in order
    txt,                \* the lines written to the view
    disc,               \* history: per entry, how its discovery ended
    contrib,            \* history: per entry, the store ids its update() call put into all_stores
    completed,          \* history: the futures of the view in the order their calls ended
    aux,                \* the auxiliary view that runs: "sales", "labor" or "" for none
    sales_map           \* sales_map of Sales Today: store id -> the value to display

VARIABLES fl_obj, fl_out, fl_pc      \* one call of flatten_json: argument, result, position

progvars == <<pc, cfg, bi, config_accounts, account_store_map, all_stores, account_vars,
              store_vars, log, endpoint, stores, futures, tasks, ac_first, ac_queue, txt,
              disc, contrib, completed, aux, sales_map>>
flvars   == <<fl_obj, fl_out, fl_pc>>
vars     == <<progvars, flvars>>

EmptyMap == [x \in {} |-> 0]

ProgInit(configs) ==
    /\ pc = "boot"
    /\ cfg \in configs
    /\ bi = 1
    /\ config_accounts = <<>>
    /\ account_store_map = EmptyMap
    /\ all_stores = {}
    /\ account_vars = EmptyMap
    /\ store_vars = EmptyMap
    /\ log = <<>>
    /\ endpoint = ""
    /\ stores = <<>>
    /\ futures = <<>>
    /\ tasks = <<>>
    /\ ac_first = {}
    /\ ac_queue = <<>>
    /\ txt = <<>>
    /\ disc = [i \in 1..Len(cfg) |-> "none"]
    /\ contrib = [i \in 1..Len(cfg) |-> {}]
    /\ completed = <<>>
    /\ aux = ""
    /\ sales_map = EmptyMap

\* ------------------------------------------------------------- log_error
\* log_error(msg) opens error.log for append and writes one line.  `written`
\* says whether open() and write() went through; if not, the OSError leaves
\* log_error.  The time stamp and the exception text of a line are left out.
log_error(lg, written, msg) ==
    IF written THEN [raised |-> FALSE, log |-> Append(lg, msg)]
    ELSE [raised |-> TRUE, log |-> lg]

\* ------------------------------------------------ load_config_and_stores
\* all(k in acct for k in ("Name", "ClientID", "ClientKEY"))
WellFormed(acct) == RequiredKeys \subseteq acct.keys

\* [r["restaurantNumber"] for r in res.json() if "restaurantNumber" in r]
StoresOf(recs) == SelectSeq(recs, LAMBDA r : r # NOFIELD)

\* all_stores.update(stores) adds the elements one by one and raises TypeError
\* at the first one that is not hashable: the elements before it stay added
RECURSIVE HashablePrefix(_)
HashablePrefix(sids) ==
    IF sids = <<>> \/ Head(sids) = UNHASHABLE THEN <<>>
    ELSE <<Head(sids)>> \o HashablePrefix(Tail(sids))

Range(f) == {f[i] : i \in DOMAIN f}

MapSet(m, k, v) == [x \in DOMAIN m \cup {k} |-> IF x = k THEN v ELSE m[x]]

\* the try block of one account: the entry, the directory and whether the
\* except branch was taken
Discover(acct0, out, asm, alls) ==
    LET acct == [acct0 EXCEPT !.keys = @ \cup {"Status"}, !.Status = "ERROR"] IN
    IF ~ out.ok
    THEN [acct |-> acct, asm |-> asm, alls |-> alls, added |-> {}, failed |-> TRUE]
    ELSE LET sids  == StoresOf(out.recs)
             acct2 == [acct EXCEPT !.keys = @ \cup {"StoreIDs"}, !.StoreIDs = sids,
                                   !.Status = IF sids # <<>> THEN "OK" ELSE "EMPTY"]
             added == Range(HashablePrefix(sids))
         IN  [acct |-> acct2, asm |-> MapSet(asm, acct.Name, sids),
              alls |-> alls \cup added, added |-> added,
              failed |-> \E j \in 1..Len(sids) : sids[j] = UNHASHABLE]

\* acct.get("StoreIDs", [])
StoreIDsOf(acct) == IF "StoreIDs" \in acct.keys THEN acct.StoreIDs ELSE <<>>

\* how many store ids the entries before the i-th hold
RECURSIVE Listed(_, _)
Listed(accts, i) ==
    IF i <= 1 THEN 0 ELSE Listed(accts, i - 1) + Len(StoreIDsOf(accts[i - 1]))

\* one round of `for acct in cfg.get("accounts", [])`, the store-listing
\* call ending in one of outs
BootAccountOn(outs) ==
    /\ pc = "boot" /\ ~ DEBUG
    /\ bi <= Len(cfg)
    /\ \E out \in outs, written \in BOOLEAN :
        /\ IF ~ WellFormed(cfg[bi])
           THEN LET l == log_error(log, written, [ev |-> "malformed", who |-> bi]) IN
                /\ log' = l.log
                /\ pc' = IF l.raised THEN "boot_raised" ELSE pc
                /\ bi' = IF l.raised THEN bi ELSE bi + 1
                /\ disc' = [disc EXCEPT ![bi] = "skipped"]
                /\ UNCHANGED <<cfg, account_store_map, all_stores, contrib>>
           ELSE LET d == Discover(cfg[bi], out, account_store_map, all_stores)
                    l == IF d.failed
                         THEN log_error(log, written, [ev |-> "store fetch failed", who |-> bi])
                         ELSE [raised |-> FALSE, log |-> log]
                IN
                /\ cfg' = [cfg EXCEPT ![bi] = d.acct]
                /\ account_store_map' = d.asm
                /\ all_stores' = d.alls
                /\ contrib' = [contrib EXCEPT ![bi] = d.added]
                /\ disc' = [disc EXCEPT ![bi] = IF d.failed THEN "failed" ELSE "ok"]
                /\ log' = l.log
                /\ pc' = IF l.raised THEN "boot_raised" ELSE pc
                /\ bi' = IF l.raised THEN bi ELSE bi + 1
    /\ UNCHANGED <<config_accounts, account_vars, store_vars, endpoint, stores, futures,
                   tasks, ac_first, ac_queue, txt, completed, aux, sales_map,
                   flvars>>

\* the store listings of all the accounts together stay within MaxRecs, and
\* within MaxEntries when counted with the account entries
InBudget(o) ==
    o.ok => /\ Listed(cfg, bi) + Len(o.recs) <= MaxRecs
            /\ Len(cfg) + Listed(cfg, bi) + Len(o.recs) <= MaxEntries

BootAccount == BootAccountOn({o \in DiscoveryOutcomes : InBudget(o)})

\* config_accounts[:] = cfg.get("accounts", []), and the return to build_gui
BootReturn ==
    /\ pc = "boot" /\ ~ DEBUG
    /\ bi > Len(cfg)
    /\ config_accounts' = cfg
    /\ pc' = "gui"
    /\ UNCHANGED <<cfg, bi, account_store_map, all_stores, account_vars, store_vars, log,
                   endpoint, stores, futures, tasks, ac_first, ac_queue, txt, disc, contrib,
                   completed, aux, sales_map,
                   flvars>>

\* -------------------------------------------------------------- build_gui
\* for acct in config_accounts: account_vars[acct["Name"]] = IntVar(value=1 if
\* acct["Status"] == "OK" else 0); an entry without "Status" or "Name" raises KeyError
GuiReadable(acct) == {"Name", "Status"} \subseteq acct.keys

RECURSIVE InitAccountVars(_, _, _)
InitAccountVars(accts, i, av) ==
    IF i > Len(accts) \/ ~ GuiReadable(accts[i]) THEN av
    ELSE InitAccountVars(accts, i + 1,
             MapSet(av, accts[i].Name, IF accts[i].Status = "OK" THEN 1 ELSE 0))

\* a fake account of debug_generate_data: it "fails" and has no stores, or
\* has list(stores), stores being a set of up to stores_per_account random ids
DebugAccounts(stores_per_account) ==
    {[Status |-> "ERROR", StoreIDs |-> <<>>]}
    \cup {[Status |-> "OK", StoreIDs |-> l] :
             l \in {q \in SeqsUpTo(StoreIds \cup PoolStoreIds, stores_per_account) :
                       /\ stores_per_account > 0 => q # <<>>
                       /\ \A i, j \in 1..Len(q) : i # j => q[i] # q[j]}}

\* debug_generate_data(master, num_accounts, stores_per_account): the globals
\* are cleared and filled with accounts "Acct_1", "Acct_2", ...; the random
\* credentials of account ai are written ai
debug_generate_data(num_accounts, stores_per_account) ==
    \E gen \in [1..num_accounts -> DebugAccounts(stores_per_account)] :
        LET name(ai) == "Acct_" \o ToString(ai) IN
        /\ config_accounts' =
              [ai \in 1..num_accounts |->
                  [keys |-> {"Name", "ClientID", "ClientKEY", "Status", "StoreIDs"},
                   Name |-> name(ai), ClientID |-> ai, ClientKEY |-> ai,
                   Status |-> gen[ai].Status, StoreIDs |-> gen[ai].StoreIDs]]
        /\ account_store_map' =
              [n \in {name(ai) : ai \in 1..num_accounts} |->
                  gen[CHOOSE ai \in 1..num_accounts : name(ai) = n].StoreIDs]
        /\ all_stores' = UNION {Range(gen[ai].StoreIDs) : ai \in 1..num_accounts}
        /\ account_vars' =
              [n \in {name(ai) : ai \in 1..num_accounts} |->
                  IF gen[CHOOSE ai \in 1..num_accounts : name(ai) = n].Status = "OK"
                  THEN 1 ELSE 0]
        /\ store_vars' = [s \in all_stores' |-> 1]

\* build_gui from root = tk.Tk() to the main loop: with DEBUG, the fake data
\* of debug_generate_data; without, from the return of
\* load_config_and_stores on
GuiInit ==
    IF DEBUG
    THEN /\ pc = "boot"
         /\ debug_generate_data(20, 10)
         /\ pc' = "idle"
         /\ UNCHANGED <<cfg, bi, log, endpoint, stores, futures, tasks, ac_first, ac_queue,
                        txt, disc, contrib, completed, aux, sales_map, flvars>>
    ELSE /\ pc = "gui"
         /\ account_vars' = InitAccountVars(config_accounts, 1, account_vars)
         /\ IF \E i \in 1..Len(config_accounts) : ~ GuiReadable(config_accounts[i])
            THEN /\ pc' = "gui_raised"
                 /\ UNCHANGED store_vars
            ELSE /\ store_vars' = [s \in all_stores |-> 1]
                 /\ pc' = "idle"
         /\ UNCHANGED <<cfg, bi, config_accounts, account_store_map, all_stores, log,
                        endpoint, stores, futures, tasks, ac_first, ac_queue, txt, disc,
                        contrib, completed, aux, sales_map, flvars>>

\* a click on the check button of store s
ToggleStore(s) ==
    /\ pc = "idle"
    /\ s \in DOMAIN store_vars
    /\ store_vars' = [store_vars EXCEPT ![s] = 1 - @]
    /\ UNCHANGED <<pc, cfg, bi, config_accounts, account_store_map, all_stores, account_vars,
                   log, endpoint, stores, futures, tasks, ac_first, ac_queue, txt, disc,
                   contrib, completed, aux, sales_map,
                   flvars>>

\* a click on the check button of account entry a, which is enabled when the
\* entry's Status is "OK": Tk flips the entry's variable, account_vars[Name],
\* and the command gives its value to the store_vars of the stores of
\* account_store_map.get(Name, []), one by one; `s in store_vars` raises
\* TypeError at an id that is not hashable, which ends the command (Tk
\* reports the exception and the main loop goes on)
ToggleAccount(a) ==
    /\ pc = "idle"
    /\ a \in 1..Len(config_accounts)
    /\ config_accounts[a].Status = "OK"
    /\ LET n   == config_accounts[a].Name
           v   == 1 - account_vars[n]
           sts == IF n \in DOMAIN account_store_map
                  THEN Range(HashablePrefix(account_store_map[n])) ELSE {}
       IN  /\ account_vars' = [account_vars EXCEPT ![n] = v]
           /\ store_vars' = [s \in DOMAIN store_vars |-> IF s \in sts THEN v ELSE store_vars[s]]
    /\ UNCHANGED <<pc, cfg, bi, config_accounts, account_store_map, all_stores, log, endpoint,
                   stores, futures, tasks, ac_first, ac_queue, txt, disc, contrib, completed,
                   aux, sales_map, flvars>>

\* acct_select_all (v = 1) and acct_unselect_all (v = 0)
AcctSetAll(v) ==
    /\ pc = "idle"
    /\ account_vars' = [n \in DOMAIN account_vars |-> v]
    /\ store_vars' = [s \in DOMAIN store_vars |-> v]
    /\ UNCHANGED <<pc, cfg, bi, config_accounts, account_store_map, all_stores, log, endpoint,
                   stores, futures, tasks, ac_first, ac_queue, txt, disc, contrib, completed,
                   aux, sales_map, flvars>>

\* store_select_all (v = 1) and store_unselect_all (v = 0)
StoreSetAll(v) ==
    /\ pc = "idle"
    /\ store_vars' = [s \in DOMAIN store_vars |-> v]
    /\ UNCHANGED <<pc, cfg, bi, config_accounts, account_store_map, all_stores, account_vars,
                   log, endpoint, stores, futures, tasks, ac_first, ac_queue, txt, disc,
                   contrib, completed, aux, sales_map, flvars>>

\* sorted(S, key=int) as a list
RECURSIVE SortedByNumber(_)
SortedByNumber(S) ==
    IF S = {} THEN <<>>
    ELSE LET m == CHOOSE x \in S : \A y \in S : StoreNumber[x] <= StoreNumber[y]
         IN  <<m>> \o SortedByNumber(S \ {m})

\* [s for s, v in store_vars.items() if v.get()]; store_vars was filled in
\* the order of sorted(all_stores, key=int)
SelectedStores == SortedByNumber({s \in DOMAIN store_vars : store_vars[s] = 1})

\* ------------------------------------------------------- open_view_window
InList(x, l) == \E i \in 1..Len(l) : l[i] = x

\* a variant of ShouldSubmit without the `fetched` test
ShouldSubmitNoDedup(sid, sel, fetched) == InList(sid, sel)

\* sid in stores and sid not in fetched
ShouldSubmit(sid, sel, fetched) == InList(sid, sel) /\ sid \notin fetched

\* a variant of AcctIterOrder that goes through the accounts backwards
AcctIterOrderReversed(accts) == [i \in 1..Len(accts) |-> Len(accts) + 1 - i]

\* for acct in config_accounts
AcctIterOrder(accts) == [i \in 1..Len(accts) |-> i]

\* ex.submit(fetch_data, endpoint, sid, start, end, cid, ckey); futures[fut] = (aname, sid)
Submitted(acct, sid) ==
    [aname |-> acct.Name, sid |-> sid, cid |-> acct.ClientID, ckey |-> acct.ClientKEY]

RECURSIVE SubmitStores(_, _, _, _, _)
\* for sid in acct.get("StoreIDs", []), with st = [futures, fetched]
SubmitStores(acct, sids, j, sel, st) ==
    IF j > Len(sids) THEN st
    ELSE SubmitStores(acct, sids, j + 1, sel,
             IF ShouldSubmit(sids[j], sel, st.fetched)
             THEN [st EXCEPT !.futures = Append(@, Submitted(acct, sids[j])),
                             !.fetched = @ \cup {sids[j]}]
             ELSE st)

RECURSIVE SubmitAccounts(_, _, _, _, _)
\* for acct in config_accounts; acct["ClientID"], acct["ClientKEY"], acct["Name"]
\* raise KeyError on an entry that lacks one of them
SubmitAccounts(accts, order, a, sel, st) ==
    IF a > Len(order) THEN [st EXCEPT !.raised = FALSE]
    ELSE IF ~ WellFormed(accts[order[a]]) THEN [st EXCEPT !.raised = TRUE]
    ELSE SubmitAccounts(accts, order, a + 1, sel,
             SubmitStores(accts[order[a]], StoreIDsOf(accts[order[a]]), 1, sel, st))

Dispatch(accts, sel) ==
    SubmitAccounts(accts, AcctIterOrder(accts), 1, sel,
                   [futures |-> <<>>, fetched |-> {}, raised |-> FALSE])

\* the state of a future
Queued      == [st |-> "queued"]
Running     == [st |-> "running"]
Returned(v, h) == [st |-> "done", how |-> "returned", res |-> v, http |-> h]
Raised(e, h)   == [st |-> "done", how |-> "raised", exc |-> e, http |-> h]
Finished(t) == t.st \in {"done", "consumed"}

\* where the submit loops are after n calls of ex.submit, d being what the
\* loops do in all: in the loops, at their end, or left by a KeyError
LoopPc(d, n, in_loop, at_end, raised) ==
    IF n < Len(d.futures) THEN in_loop ELSE IF d.raised THEN raised ELSE at_end

\* the click on View: open_view_window(endpoint_var.get(), [selected], start, end)
\* up to the first call of ex.submit
View(ep) ==
    /\ pc = "idle"
    /\ LET sel == SelectedStores IN
           /\ endpoint' = ep
           /\ stores' = sel
           /\ futures' = <<>>
           /\ tasks' = <<>>
           /\ txt' = <<[line |-> "banner", endpoint |-> ep, stores |-> sel]>>
           /\ pc' = LoopPc(Dispatch(config_accounts, sel), 0,
                           "submitting", "submitted", "view_raised")
    /\ UNCHANGED <<cfg, bi, config_accounts, account_store_map, all_stores, account_vars,
                   store_vars, log, ac_first, ac_queue, disc, contrib, completed, aux, sales_map,
                   flvars>>

\* the next call of ex.submit of the submit loops, and the loops up to the
\* call after it: the workers of the futures submitted before run meanwhile
Submit ==
    /\ pc = "submitting"
    /\ LET d == Dispatch(config_accounts, stores)
           n == Len(futures) + 1
       IN  /\ futures' = Append(futures, d.futures[n])
           /\ tasks' = Append(tasks, Queued)
           /\ pc' = LoopPc(d, n, "submitting", "submitted", "view_raised")
    /\ UNCHANGED <<cfg, bi, config_accounts, account_store_map, all_stores, account_vars,
                   store_vars, log, endpoint, stores, ac_first, ac_queue, txt, disc, contrib,
                   completed, aux, sales_map, flvars>>

InView == pc \in {"submitting", "submitted", "collect", "view_raised", "view_done"}
\* an auxiliary view (modules/*.py: run) is under way or over
InAux  == pc \in {"aux_submitting", "aux_submitted", "aux_collect", "aux_raised", "aux_done"}

\* -------------------------------------------------------------- fetch_data
\* str(exc) of the exceptions a request raises
ErrorText(why) ==
    CASE why = "timeout"     -> "Read timed out."
      [] why = "transport"   -> "Connection aborted."
      [] why = "http_status" -> "500 Server Error"
      [] why = "json_decode" -> "Expecting value: line 1 column 1 (char 0)"

\* {"error": str(exc)}
ErrorDict(msg) == Obj(<< <<K_error, Str(msg)>> >>)

\* fetch_data(ep, sid, ...) given the outcome of its HTTP call and of its log write
fetch_data(ep, sid, out, written, lg) ==
    IF ep \notin DOMAIN ENDPOINTS
    THEN [result |-> Raised("KeyError", "not sent"), log |-> lg]
    ELSE IF out.ok
    THEN [result |-> Returned(out.body, "success"), log |-> lg]
    ELSE LET l == log_error(lg, written, [ev |-> "Fetch error", sid |-> sid, ep |-> ep]) IN
         [result |-> IF l.raised THEN Raised("OSError", out.why)
                     ELSE Returned(ErrorDict(ErrorText(out.why)), out.why),
          log |-> l.log]

\* the calls a worker thread holds: in fetch_data, or out of it with the
\* future not yet set done
NumRunning == Cardinality({i \in 1..Len(tasks) : tasks[i].st \in {"running", "logged"}})

\* a pool that starts a thread for every submitted call
WorkerFreeAlways == TRUE

\* the pool has max_workers threads, each running one call at a time
WorkerFree == NumRunning < max_workers

\* a worker thread of the pool takes future i off the work queue
StartFetch(i) ==
    /\ InView \/ InAux
    /\ tasks[i].st = "queued"
    /\ \A j \in 1..(i - 1) : tasks[j].st # "queued"
    /\ WorkerFree
    /\ tasks' = [tasks EXCEPT ![i] = Running]
    /\ UNCHANGED <<pc, cfg, bi, config_accounts, account_store_map, all_stores, account_vars,
                   store_vars, log, endpoint, stores, futures, ac_first, ac_queue, txt, disc,
                   contrib, completed, aux, sales_map,
                   flvars>>

\* a waiter that hands the newest finished future out first
EnqueueFront(q, i) == <<i>> \o q

\* the waiter of as_completed takes a future that is set done: it appends it
\* to its list, and the list is handed out oldest first
Enqueue(q, i) == Append(q, i)

\* A worker is followed through the steps that other threads can see: the
\* line it writes to error.log, and the future it sets done.  What fetch_data
\* does between the two, and before the first, touches nothing shared.

\* fetch_data of future i, its HTTP call ending in a failure of outs, gets
\* through log_error: the line is in error.log and the future is not done
LogFetchError(i, outs) ==
    /\ InView \/ InAux
    /\ tasks[i].st = "running"
    /\ \E out \in outs :
        LET f == fetch_data(endpoint, futures[i].sid, out, TRUE, log) IN
        /\ f.log # log
        /\ tasks' = [tasks EXCEPT ![i] = [f.result EXCEPT !.st = "logged"]]
        /\ log' = f.log
    /\ UNCHANGED <<pc, cfg, bi, config_accounts, account_store_map, all_stores, account_vars,
                   store_vars, endpoint, stores, futures, ac_first, ac_queue, txt, disc,
                   contrib, completed, aux, sales_map, flvars>>

\* the worker sets future i done with the result or the exception of
\* fetch_data, and the waiter of as_completed, if there is one, takes it:
\* after the line of LogFetchError, or with the HTTP call ending in one of
\* outs and nothing written to error.log
SetDone(i, outs) ==
    /\ InView \/ InAux
    /\ \/ /\ tasks[i].st = "logged"
          /\ tasks' = [tasks EXCEPT ![i].st = "done"]
       \/ /\ tasks[i].st = "running"
          /\ \E out \in outs, written \in BOOLEAN :
              LET f == fetch_data(endpoint, futures[i].sid, out, written, log) IN
              /\ f.log = log
              /\ tasks' = [tasks EXCEPT ![i] = f.result]
    /\ ac_queue' = IF pc = "collect" THEN Enqueue(ac_queue, i) ELSE ac_queue
    /\ UNCHANGED <<pc, cfg, bi, config_accounts, account_store_map, all_stores, account_vars,
                   store_vars, log, endpoint, stores, futures, ac_first, txt, disc, contrib,
                   aux, sales_map, flvars>>

FinishFetch(i) == SetDone(i, HttpOutcomes) /\ completed' = Append(completed, i)

\* as_completed(futures) starts: the futures already finished come first
AsCompleted ==
    /\ pc = "submitted"
    /\ ac_first' = {i \in 1..Len(tasks) : tasks[i].st = "done"}
    /\ pc' = "collect"
    /\ UNCHANGED <<cfg, bi, config_accounts, account_store_map, all_stores, account_vars,
                   store_vars, log, endpoint, stores, futures, tasks, ac_queue, txt, disc,
                   contrib, completed, aux, sales_map,
                   flvars>>

\* "error" in res; res['error']; res.get("data", res): only a dict has all three
Route(res) ==
    IF ~ IsDict(res) THEN [to |-> "raise"]
    ELSE IF HasKey(res, K_error) THEN [to |-> "error", msg |-> Lookup(res, K_error)]
    ELSE [to |-> "payload", payload |-> DictGet(res, K_data, res)]

\* one round of `for fut in as_completed(futures)` with future i.  flat_var is 0:
\* it is created with value 0 and no event is handled before the loop ends.
Consume(i) ==
    /\ pc = "collect"
    /\ \/ i \in ac_first
       \/ ac_first = {} /\ ac_queue # <<>> /\ i = Head(ac_queue)
    /\ ac_first' = ac_first \ {i}
    /\ ac_queue' = IF i \in ac_first THEN ac_queue ELSE Tail(ac_queue)
    /\ tasks' = [tasks EXCEPT ![i].st = "consumed"]
    /\ LET hdr == [line |-> "header", aname |-> futures[i].aname, sid |-> futures[i].sid] IN
       IF tasks[i].how = "raised"
       THEN /\ pc' = "view_raised"
            /\ UNCHANGED txt
       ELSE LET r == Route(tasks[i].res) IN
            CASE r.to = "raise" ->
                    /\ pc' = "view_raised"
                    /\ txt' = Append(txt, hdr)
              [] r.to = "error" ->
                    /\ pc' = pc
                    /\ txt' = txt \o <<hdr, [line |-> "ERROR", i |-> i, msg |-> r.msg]>>
              [] r.to = "payload" ->
                    /\ pc' = pc
                    /\ txt' = txt \o <<hdr, [line |-> "json", i |-> i, payload |-> r.payload]>>
    /\ UNCHANGED <<cfg, bi, config_accounts, account_store_map, all_stores, account_vars,
                   store_vars, log, endpoint, stores, futures, disc, contrib, completed, aux, sales_map,
                   flvars>>

\* the loop ends, the pool is shut down, Copy All is enabled
ViewReturn ==
    /\ pc = "collect"
    /\ \A i \in 1..Len(tasks) : tasks[i].st = "consumed"
    /\ pc' = "view_done"
    /\ UNCHANGED <<cfg, bi, config_accounts, account_store_map, all_stores, account_vars,
                   store_vars, log, endpoint, stores, futures, tasks, ac_first, ac_queue, txt,
                   disc, contrib, completed, aux, sales_map,
                   flvars>>

\* ------------------------- modules/Sales Today.py, modules/Labor Today.py
\* ENDPOINT_NAME of the two modules
AuxEndpoint == [m \in {"sales", "labor"} |->
                   IF m = "sales" THEN "Sales Summary" ELSE "Daily Timeclock"]

K_netSales       == <<"n", "e", "t", "S", "a", "l", "e", "s">>
K_netSale        == <<"n", "e", "t", "S", "a", "l", "e">>
K_netSalesTotal  == K_netSales \o <<"T", "o", "t", "a", "l">>
K_netSalesAmount == K_netSales \o <<"A", "m", "o", "u", "n", "t">>
\* for key in ("netSales", "netSale", "netSalesTotal", "netSalesAmount")
NetSalesKeys == <<K_netSales, K_netSale, K_netSalesTotal, K_netSalesAmount>>

\* a variant of AuxShouldSubmit that skips a store already submitted
AuxShouldSubmitDedup(sid, sel, fetched) == InList(sid, sel) /\ sid \notin fetched

\* if store_id in selected
AuxShouldSubmit(sid, sel, fetched) == InList(sid, sel)

RECURSIVE AuxSubmitStores(_, _, _, _, _)
\* for store_id in acct.get("StoreIDs", []), with st = [futures, fetched];
\* `fetched` is the set of the store ids submitted so far, which the code does not keep
AuxSubmitStores(acct, sids, j, sel, st) ==
    IF j > Len(sids) THEN st
    ELSE AuxSubmitStores(acct, sids, j + 1, sel,
             IF AuxShouldSubmit(sids[j], sel, st.fetched)
             THEN [st EXCEPT !.futures = Append(@, Submitted(acct, sids[j])),
                             !.fetched = @ \cup {sids[j]}]
             ELSE st)

RECURSIVE AuxSubmitAccounts(_, _, _, _, _)
\* for acct in config_accounts; acct["ClientID"], acct["ClientKEY"] (and
\* acct["Name"] in Labor Today) raise KeyError on an entry that lacks them
AuxSubmitAccounts(accts, need, a, sel, st) ==
    IF a > Len(accts) THEN [st EXCEPT !.raised = FALSE]
    ELSE IF ~ (need \subseteq accts[a].keys) THEN [st EXCEPT !.raised = TRUE]
    ELSE AuxSubmitAccounts(accts, need, a + 1, sel,
             AuxSubmitStores(accts[a], StoreIDsOf(accts[a]), 1, sel, st))

AuxDispatch(m, accts, sel) ==
    AuxSubmitAccounts(accts,
                      IF m = "sales" THEN {"ClientID", "ClientKEY"} ELSE RequiredKeys,
                      1, sel, [futures |-> <<>>, fetched |-> {}, raised |-> FALSE])

\* run(window) of module m, called with the host in its main loop, up to the
\* first call of ex.submit.  (run is the entry point of the module; the
\* button the host makes for a module, main.py 188-193, opens a window and
\* leaves the call out.)
AuxRun(m) ==
    /\ pc = "idle"
    /\ aux' = m
    /\ LET sel == SelectedStores IN
           IF sel = <<>>
           THEN /\ txt' = <<[line |-> "No stores selected in the main window."]>>
                /\ pc' = "aux_done"
                /\ UNCHANGED <<endpoint, stores, futures, tasks>>
           ELSE /\ endpoint' = AuxEndpoint[m]
                /\ stores' = sel
                /\ futures' = <<>>
                /\ tasks' = <<>>
                /\ txt' = <<[line |-> "banner", endpoint |-> AuxEndpoint[m], stores |-> sel]>>
                /\ pc' = LoopPc(AuxDispatch(m, config_accounts, sel), 0,
                                "aux_submitting", "aux_submitted", "aux_raised")
    /\ UNCHANGED <<cfg, bi, config_accounts, account_store_map, all_stores, account_vars,
                   store_vars, log, ac_first, ac_queue, disc, contrib, completed, sales_map,
                   flvars>>

\* the next call of ex.submit of an auxiliary view, and its loops up to the
\* call after it
AuxSubmit ==
    /\ pc = "aux_submitting"
    /\ LET d == AuxDispatch(aux, config_accounts, stores)
           n == Len(futures) + 1
       IN  /\ futures' = Append(futures, d.futures[n])
           /\ tasks' = Append(tasks, Queued)
           /\ pc' = LoopPc(d, n, "aux_submitting", "aux_submitted", "aux_raised")
    /\ UNCHANGED <<cfg, bi, config_accounts, account_store_map, all_stores, account_vars,
                   store_vars, log, endpoint, stores, ac_first, ac_queue, txt, disc, contrib,
                   completed, aux, sales_map, flvars>>

\* the `with ThreadPoolExecutor` block ends: it waits for every submitted call;
\* then as_completed(futures) starts, with every future already finished
AuxJoin ==
    /\ pc = "aux_submitted"
    /\ \A i \in 1..Len(tasks) : Finished(tasks[i])
    /\ ac_first' = 1..Len(tasks)
    /\ pc' = "aux_collect"
    /\ UNCHANGED <<cfg, bi, config_accounts, account_store_map, all_stores, account_vars,
                   store_vars, log, endpoint, stores, futures, tasks, ac_queue, txt, disc,
                   contrib, completed, aux, sales_map, flvars>>

\* ---- Python values and operators that the result loops apply to a result
\* None
NoneV == [t |-> "none"]

\* bool(v)
Truthy(v) ==
    CASE v.t = "num" -> v.n # 0
      [] v.t = "str" -> v.s # ""
      [] v.t = "arr" -> v.items # <<>>
      [] v.t = "obj" -> v.kv # <<>>
      [] OTHER       -> FALSE

\* a or b
PyOr(a, b) == IF Truthy(a) THEN a ELSE b

\* hash(v) is defined: a list and a dict have none
Hashable(v) == v.t \notin {"arr", "obj"}

\* the str of a key of the model
RECURSIVE KeyStr(_)
KeyStr(k) == IF k = <<>> THEN "" ELSE Head(k) \o KeyStr(Tail(k))

\* sub in s, for two str
StrContains(s, sub) ==
    \E p \in 1..(Len(s) - Len(sub) + 1) : SubSeq(s, p, p + Len(sub) - 1) = sub

\* the printable ASCII characters in code point order, but for the grave
\* accent, which no string of the model holds
Ascii == " !\"#$%&'()*+,-./0123456789:;<=>?@ABCDEFGHIJKLMNOPQRSTUVWXYZ[\\]^_abcdefghijklmnopqrstuvwxyz{|}~"
Ord(c) == CHOOSE p \in 1..Len(Ascii) : SubSeq(Ascii, p, p) = c

\* s.lower()
RECURSIVE StrLower(_)
StrLower(s) ==
    IF s = "" THEN ""
    ELSE LET c == SubSeq(s, 1, 1)
             o == Ord(c)
         IN  (IF Ord("A") <= o /\ o <= Ord("Z") THEN SubSeq(Ascii, o + 31, o + 31) ELSE c)
                 \o StrLower(SubSeq(s, 2, Len(s)))

\* a < b and a <= b, for two str
RECURSIVE StrLess(_, _)
StrLess(a, b) ==
    IF b = "" THEN FALSE
    ELSE IF a = "" THEN TRUE
    ELSE LET x == Ord(SubSeq(a, 1, 1))
             y == Ord(SubSeq(b, 1, 1))
         IN  IF x # y THEN x < y
             ELSE StrLess(SubSeq(a, 2, Len(a)), SubSeq(b, 2, Len(b)))
StrLessEq(a, b) == a = b \/ StrLess(a, b)

\* a == b: two dicts are equal when they hold the same keys with equal values
RECURSIVE PyEq(_, _)
PyEq(a, b) ==
    IF a.t # b.t THEN FALSE
    ELSE IF a.t = "arr"
    THEN /\ Len(a.items) = Len(b.items)
         /\ \A p \in 1..Len(a.items) : PyEq(a.items[p], b.items[p])
    ELSE IF a.t = "obj"
    THEN /\ Len(a.kv) = Len(b.kv)
         /\ \A p \in 1..Len(a.kv) :
               HasKey(b, a.kv[p][1]) /\ PyEq(a.kv[p][2], Lookup(b, a.kv[p][1]))
    ELSE a = b

\* a < b: [raised, lt]; TypeError unless both are numbers, both str, or both
\* lists, which compare by their first pair of unequal items
RECURSIVE PyLess(_, _)
PyLess(a, b) ==
    IF a.t = "num" /\ b.t = "num" THEN [raised |-> FALSE, lt |-> a.n < b.n]
    ELSE IF a.t = "str" /\ b.t = "str" THEN [raised |-> FALSE, lt |-> StrLess(a.s, b.s)]
    ELSE IF a.t = "arr" /\ b.t = "arr"
    THEN LET both == {p \in 1..Len(a.items) : p <= Len(b.items)}
             diff == {p \in both : ~ PyEq(a.items[p], b.items[p])}
         IN  IF diff = {} THEN [raised |-> FALSE, lt |-> Len(a.items) < Len(b.items)]
             ELSE LET d == CHOOSE p \in diff : \A q \in diff : p <= q
                  IN  PyLess(a.items[d], b.items[d])
    ELSE [raised |-> TRUE]

\* ---- Sales Today: the result loop
\* data[0] of a non-empty list, data itself if a dict, else {}
Summary(data) ==
    IF IsList(data) /\ data.items # <<>> THEN data.items[1]
    ELSE IF IsDict(data) THEN data
    ELSE Obj(<<>>)

\* key in summary: a key of a dict, an item of a list, a part of a str;
\* TypeError for a number
KeyIn(key, summary) ==
    CASE IsDict(summary)   -> [raised |-> FALSE, found |-> HasKey(summary, key)]
      [] IsList(summary)   -> [raised |-> FALSE,
                               found |-> \E p \in 1..Len(summary.items) :
                                             summary.items[p] = Str(KeyStr(key))]
      [] summary.t = "str" -> [raised |-> FALSE, found |-> StrContains(summary.s, KeyStr(key))]
      [] OTHER             -> [raised |-> TRUE]

\* the for-else over the keys: the value of the first of the keys that summary
\* has, or "N/A"; summary[key] is a TypeError for a list and for a str
RECURSIVE NetSales(_, _)
NetSales(summary, k) ==
    IF k > Len(NetSalesKeys) THEN [raised |-> FALSE, val |-> Str("N/A")]
    ELSE LET c == KeyIn(NetSalesKeys[k], summary) IN
         IF c.raised THEN [raised |-> TRUE]
         ELSE IF ~ c.found THEN NetSales(summary, k + 1)
         ELSE IF IsDict(summary)
         THEN [raised |-> FALSE, val |-> Lookup(summary, NetSalesKeys[k])]
         ELSE [raised |-> TRUE]

\* sales_map[store_id] = ...
SalesMapSet(m, sid, v) == MapSet(m, sid, v)

\* the body of the loop on result res: the value it keeps for the store, or
\* an exception
SalesRound(res) ==
    LET r == Route(res) IN
    IF r.to = "raise" THEN [raised |-> TRUE]
    ELSE IF r.to = "error" THEN [raised |-> FALSE, val |-> [error |-> r.msg]]
    ELSE NetSales(Summary(r.payload), 1)

\* ---- Labor Today: the result loop
K_employeeName    == <<"e", "m", "p", "l", "o", "y", "e", "e", "N", "a", "m", "e">>
K_clockInDateTime == <<"c", "l", "o", "c", "k", "I", "n", "D", "a", "t", "e", "T", "i", "m", "e">>
K_clockIn         == <<"c", "l", "o", "c", "k", "I", "n">>
K_jobDescription  == <<"j", "o", "b", "D", "e", "s", "c", "r", "i", "p", "t", "i", "o", "n">>
K_jobCode         == <<"j", "o", "b", "C", "o", "d", "e">>

\* if isinstance(data, dict): data = [data]; the items that `for rec in data
\* or []` goes through: a number other than 0 is not iterable, a str gives
\* its characters
LaborRecords(data) ==
    CASE IsDict(data)   -> [raised |-> FALSE, recs |-> <<data>>]
      [] IsList(data)   -> [raised |-> FALSE, recs |-> data.items]
      [] data.t = "str" -> [raised |-> FALSE,
                            recs |-> [p \in 1..Len(data.s) |-> Str(SubSeq(data.s, p, p))]]
      [] OTHER          -> [raised |-> Truthy(data), recs |-> <<>>]

\* the loop over the records, from record j on: `unique` as the sequence of
\* its items <<name, clock_in, job>> in insertion order.  rec.get is an
\* AttributeError unless rec is a dict, `name not in unique` a TypeError for
\* a name without hash, clock_in < ... a TypeError as PyLess has it
RECURSIVE LaborUnique(_, _, _)
LaborUnique(recs, j, unique) ==
    IF j > Len(recs) THEN [raised |-> FALSE, unique |-> unique]
    ELSE IF ~ IsDict(recs[j]) THEN [raised |-> TRUE]
    ELSE LET rec      == recs[j]
             name     == DictGet(rec, K_employeeName, Str("<unknown>"))
             clock_in == PyOr(DictGet(rec, K_clockInDateTime, NoneV),
                              DictGet(rec, K_clockIn, NoneV))
             job      == PyOr(DictGet(rec, K_jobDescription, NoneV),
                              DictGet(rec, K_jobCode, Str("")))
             at       == {p \in 1..Len(unique) : unique[p][1] = name}
         IN  IF ~ Hashable(name) THEN [raised |-> TRUE]
             ELSE IF at = {}
             THEN LaborUnique(recs, j + 1, Append(unique, <<name, clock_in, job>>))
             ELSE IF ~ Truthy(clock_in) THEN LaborUnique(recs, j + 1, unique)
             ELSE LET p == CHOOSE q \in at : TRUE
                      c == PyLess(clock_in, unique[p][2])
                  IN  IF c.raised THEN [raised |-> TRUE]
                      ELSE LaborUnique(recs, j + 1,
                               IF c.lt THEN [unique EXCEPT ![p] = <<name, clock_in, job>>]
                               ELSE unique)

\* sorted(unique.items(), key=lambda x: x[0].lower()): the first j items in
\* the order of their keys, equal keys in the order of insertion
RECURSIVE SortedByLower(_, _)
SortedByLower(unique, j) ==
    IF j = 0 THEN <<>>
    ELSE LET done == SortedByLower(unique, j - 1)
             key  == StrLower(unique[j][1].s)
             n    == Cardinality({p \in 1..Len(done) : StrLessEq(StrLower(done[p][1].s), key)})
         IN  SubSeq(done, 1, n) \o <<unique[j]>> \o SubSeq(done, n + 1, Len(done))

\* the body of the loop on result res of future i: the lines it logs, and
\* whether it ends in an exception.  x[0].lower() is an AttributeError for a
\* name that is not a str, after the line of the store was logged
LaborRound(i, res) ==
    LET r     == Route(res)
        store == [line |-> "store", i |-> i, sid |-> futures[i].sid, aname |-> futures[i].aname]
    IN  IF r.to = "raise" THEN [raised |-> TRUE, lines |-> <<>>]
        ELSE IF r.to = "error"
        THEN [raised |-> FALSE,
              lines |-> <<[line |-> "ERROR", i |-> i, sid |-> futures[i].sid,
                           aname |-> futures[i].aname, msg |-> r.msg]>>]
        ELSE LET d == LaborRecords(r.payload)
                 u == IF d.raised THEN d ELSE LaborUnique(d.recs, 1, <<>>)
             IN  IF u.raised THEN [raised |-> TRUE, lines |-> <<>>]
                 ELSE IF u.unique = <<>>
                 THEN [raised |-> FALSE, lines |-> <<store, [line |-> "no clock-ins"]>>]
                 ELSE IF \E p \in 1..Len(u.unique) : u.unique[p][1].t # "str"
                 THEN [raised |-> TRUE, lines |-> <<store>>]
                 ELSE LET items == SortedByLower(u.unique, Len(u.unique)) IN
                      [raised |-> FALSE,
                       lines |-> <<store>>
                                 \o [p \in 1..Len(items) |->
                                        [line |-> "emp", emp |-> items[p][1],
                                         clock_in |-> items[p][2], job |-> items[p][3]]]
                                 \o <<[line |-> ""]>>]

\* one round of `for fut in as_completed(futures)` of an auxiliary view;
\* fut.result() raises what the call raised
AuxConsume(i) ==
    /\ pc = "aux_collect"
    /\ i \in ac_first
    /\ ac_first' = ac_first \ {i}
    /\ tasks' = [tasks EXCEPT ![i].st = "consumed"]
    /\ IF tasks[i].how = "raised"
       THEN /\ pc' = "aux_raised"
            /\ UNCHANGED <<txt, sales_map>>
       ELSE IF aux = "sales"
       THEN LET r == SalesRound(tasks[i].res) IN
            /\ pc' = IF r.raised THEN "aux_raised" ELSE pc
            /\ sales_map' = IF r.raised THEN sales_map
                            ELSE SalesMapSet(sales_map, futures[i].sid, r.val)
            /\ UNCHANGED txt
       ELSE LET r == LaborRound(i, tasks[i].res) IN
            /\ pc' = IF r.raised THEN "aux_raised" ELSE pc
            /\ txt' = txt \o r.lines
            /\ UNCHANGED sales_map
    /\ UNCHANGED <<cfg, bi, config_accounts, account_store_map, all_stores, account_vars,
                   store_vars, log, endpoint, stores, futures, ac_queue, disc, contrib,
                   completed, aux, flvars>>

\* Sales Today: for sid in sorted(sales_map, key=int): log(f"Store {sid:>6} : {val}")
SalesLines(m) ==
    LET sids == SortedByNumber(DOMAIN m)
    IN  [k \in 1..Len(sids) |-> [line |-> "sale", sid |-> sids[k], val |-> m[sids[k]]]]

\* the result loop of an auxiliary view ends; Sales Today prints sales_map
AuxReturn ==
    /\ pc = "aux_collect"
    /\ ac_first = {}
    /\ txt' = IF aux = "sales"
              THEN txt \o <<[line |-> "=== Daily Net Sales ==="]>> \o SalesLines(sales_map)
              ELSE txt
    /\ pc' = "aux_done"
    /\ UNCHANGED <<cfg, bi, config_accounts, account_store_map, all_stores, account_vars,
                   store_vars, log, endpoint, stores, futures, tasks, ac_first, ac_queue, disc,
                   contrib, completed, aux, sales_map, flvars>>

Init == /\ ProgInit(Configs)
        /\ fl_obj = Num(0)
        /\ fl_out = <<>>
        /\ fl_pc = "none"

Next == \/ BootAccount
        \/ BootReturn
        \/ GuiInit
        \/ \E s \in StoreIds : ToggleStore(s)
        \/ \E a \in 1..MaxAccounts : ToggleAccount(a)
        \/ \E v \in {0, 1} : AcctSetAll(v)
        \/ \E v \in {0, 1} : StoreSetAll(v)
        \/ \E ep \in ReportInputs : View(ep)
        \/ Submit
        \/ \E i \in DOMAIN tasks : StartFetch(i)
        \/ \E i \in DOMAIN tasks : LogFetchError(i, HttpOutcomes)
        \/ \E i \in DOMAIN tasks : FinishFetch(i)
        \/ AsCompleted
        \/ \E i \in DOMAIN tasks : Consume(i)
        \/ ViewReturn

Spec == Init /\ [][Next]_vars

\* ------------------------------------------- the normalizer on its own
FlInit == /\ ProgInit({<<>>})
          /\ \/ \E m \in 1..MaxNodes : \E g \in Forests[m] : fl_obj \in JsonInputs(g)
             \/ fl_obj = FlattenExample
          /\ fl_out = <<>>
          /\ fl_pc = "call"

\* out = flatten_json(entry)
Flatten == /\ fl_pc = "call"
           /\ fl_out' = flatten_json(fl_obj, <<>>)
           /\ fl_pc' = "returned"
           /\ UNCHANGED <<fl_obj, progvars>>

SpecFlatten == FlInit /\ [][Flatten]_vars

\* ------------------------------------- a batch that fills the worker pool
\* One account whose store listing has up to MaxQueued stores, all selected
\* (build_gui ticks every store), one view of a catalog report whose fetches
\* all succeed; the workers are followed up to the start of the result loop,
\* which leaves a call that runs or waits as it is.
PoolConfigs  == {<<Entry(1, "A", RequiredKeys)>>}
PoolListing(n) == [i \in 1..n |-> ToString(i)]
PoolOutcomes == {[ok |-> TRUE, recs |-> PoolListing(n)] : n \in 0..MaxQueued}
PoolHttp     == {[ok |-> TRUE, body |-> B_plain]}

PoolInit == /\ ProgInit(PoolConfigs)
            /\ fl_obj = Num(0)
            /\ fl_out = <<>>
            /\ fl_pc = "none"

PoolNext == \/ BootAccountOn(PoolOutcomes)
            \/ BootReturn
            \/ GuiInit
            \/ View("Sales Summary")
            \/ Submit
            \/ \E i \in DOMAIN tasks : StartFetch(i)
            \/ \E i \in DOMAIN tasks : SetDone(i, PoolHttp) /\ UNCHANGED completed

SpecPool == PoolInit /\ [][PoolNext]_vars

\* --------------------------------------------------- the auxiliary views
\* The accounts list stores by hashable ids (the boot raises otherwise); a
\* fetch answers a list of records, or a list that holds a number, which
\* neither result loop can take, or fails.
AuxListings == {o \in DiscoveryOutcomes :
                   o.ok => \A j \in 1..Len(o.recs) : o.recs[j] \in StoreIds}
S_days  == Obj(<< <<K_data, Arr(<< Obj(<< <<K_netSale, Num(2)>> >>) >>)>> >>)
AuxHttp == {[ok |-> TRUE, body |-> b] : b \in {S_days, B_envelope}}
           \cup {[ok |-> FALSE, why |-> w] : w \in FetchFailures}

\* the configurations with no two entries of one name: an auxiliary view reads
\* an account's name only to label a line of Labor Today
AuxConfigs == {c \in Configs : \A i, j \in 1..Len(c) : i # j => c[i].Name # c[j].Name}
AuxInit == /\ ProgInit(AuxConfigs)
           /\ fl_obj = Num(0)
           /\ fl_out = <<>>
           /\ fl_pc = "none"

AuxNext == \/ BootAccountOn({o \in AuxListings : InBudget(o)})
           \/ BootReturn
           \/ GuiInit
           \/ \E s \in StoreIds : ToggleStore(s)
           \/ \E a \in 1..MaxAccounts : ToggleAccount(a)
           \/ \E v \in {0, 1} : AcctSetAll(v)
           \/ \E v \in {0, 1} : StoreSetAll(v)
           \/ \E m \in {"sales", "labor"} : AuxRun(m)
           \/ AuxSubmit
           \/ \E i \in DOMAIN tasks : StartFetch(i)
           \/ \E i \in DOMAIN tasks : LogFetchError(i, AuxHttp)
           \/ \E i \in DOMAIN tasks :
                 SetDone(i, AuxHttp) /\ completed' = Append(completed, i)
           \/ AuxJoin
           \/ \E i \in DOMAIN tasks : AuxConsume(i)
           \/ AuxReturn

SpecAux == AuxInit /\ [][AuxNext]_vars

\* ================================================================= claims
Malformed(i)   == ~ WellFormed(cfg[i])
BootReturned   == pc \notin {"boot", "boot_raised"}
ViewOver       == pc \in {"view_done", "view_raised"}

\* the accounts of config_accounts that list store sid, and the first of them
Owners(sid)     == {a \in 1..Len(config_accounts) : InList(sid, StoreIDsOf(config_accounts[a]))}
FirstOwner(sid) == CHOOSE a \in Owners(sid) : \A b \in Owners(sid) : a <= b

\* the number of fetches submitted for store sid in the view
Fetches(sid) == Cardinality({i \in 1..Len(futures) : futures[i].sid = sid})

\* the HTTP call of future i raised (timeout, transport error, status, decoding)
FetchFailed(i) == Finished(tasks[i]) /\ tasks[i].http \in RequestFailures
\* the HTTP call of future i gave a decoded body
FetchSucceeded(i) == Finished(tasks[i]) /\ tasks[i].http = "success"
\* fetch_data returned its failure value for future i
ReturnedFailure(i) == FetchFailed(i) /\ tasks[i].how = "returned"

ErrorLines(i)   == {k \in 1..Len(txt) : txt[k].line = "ERROR" /\ txt[k].i = i}
PayloadLines(i) == {k \in 1..Len(txt) : txt[k].line = "json" /\ txt[k].i = i}
HeaderLines(i)  == {k \in 1..Len(txt) : /\ txt[k].line = "header"
                                        /\ txt[k].aname = futures[i].aname
                                        /\ txt[k].sid = futures[i].sid}

\* the body without its {"data": ...} envelope
Unwrapped(body) == IF IsDict(body) /\ HasKey(body, K_data) THEN Lookup(body, K_data) ELSE body

\* C1: a batch view submits exactly one fetch for every selected store id that
\* is in all_stores and none for any other id, whatever the directory that
\* bootstrap built; with no store selected it submits nothing and does not fail.
C1_OneFetchPerSelectedStore ==
    InView =>
        /\ \A sid \in RecordKinds :
              LET due == IF InList(sid, stores) /\ sid \in all_stores THEN 1 ELSE 0 IN
              /\ Fetches(sid) <= due
              /\ pc # "submitting" => Fetches(sid) = due
        /\ stores = <<>> => futures = <<>> /\ pc # "view_raised"

\* a finished view of a selected store that two accounts list
C1_Witness ==
    /\ pc = "view_done"
    /\ \E sid \in StoreIds :
          InList(sid, stores) /\ Cardinality(Owners(sid)) >= 2 /\ Fetches(sid) = 1

\* C2 (as claimed): in a batch of several fetches of which one failed, the
\* failed fetch gave a failure value with a non-empty message and is shown as
\* an ERROR line under its header, and every other fetch of the batch is
\* rendered too, once the view is over.
C2_FailureIsolatedAndRendered ==
    (ViewOver /\ Len(futures) >= 2) =>
        \A i \in 1..Len(futures) : FetchFailed(i) =>
            /\ tasks[i].how = "returned"
            /\ tasks[i].res = ErrorDict(ErrorText(tasks[i].http))
            /\ ErrorText(tasks[i].http) # ""
            /\ ErrorLines(i) # {} /\ HeaderLines(i) # {}
            /\ \A j \in 1..Len(futures) : ErrorLines(j) \cup PayloadLines(j) # {}

\* C3: every fetch of a view carries the credentials and the name of the first
\* account, in the order of config_accounts, whose store list holds its store
\* id, and its header line shows that name.
C3_FirstAccountWins ==
    InView =>
        \A i \in 1..Len(futures) :
            LET first == config_accounts[FirstOwner(futures[i].sid)] IN
            /\ Owners(futures[i].sid) # {}
            /\ futures[i].aname = first.Name
            /\ futures[i].cid = first.ClientID
            /\ futures[i].ckey = first.ClientKEY
            /\ \A k \in 1..Len(txt) :
                  (txt[k].line = "header" /\ txt[k].sid = futures[i].sid)
                      => txt[k].aname = first.Name

\* a rendered fetch of a store that two accounts of different names list
C3_Witness ==
    \E i \in 1..Len(futures) :
        /\ HeaderLines(i) # {}
        /\ \E a, b \in Owners(futures[i].sid) :
              a < b /\ config_accounts[a].Name # config_accounts[b].Name

\* C4 (as claimed): once bootstrap has returned, an account whose discovery
\* took the except branch has Status ERROR, no store ids, and put nothing
\* into all_stores.
C4_FailedAccountIsErrorAndEmpty ==
    BootReturned =>
        \A i \in 1..Len(cfg) : disc[i] = "failed" =>
            /\ cfg[i].Status = "ERROR"
            /\ StoreIDsOf(cfg[i]) = <<>>
            /\ contrib[i] = {}

\* C5 (as claimed): a failed discovery never ends bootstrap: bootstrap does not
\* raise, and when it is over every entry has been gone through.
C5_BootstrapSurvivesDiscoveryFailure ==
    (\E i \in 1..Len(cfg) : disc[i] = "failed") =>
        /\ pc # "boot_raised"
        /\ pc # "boot" => \A j \in 1..Len(cfg) : disc[j] # "none"

\* C6 (as claimed): an entry that lacks Name, ClientID or ClientKEY is left out
\* of the directory and of config_accounts, and neither start-up nor a view
\* raises because of it.
C6_MalformedEntrySkipped ==
    \A i \in 1..Len(cfg) : (Malformed(i) /\ disc[i] = "skipped") =>
        /\ contrib[i] = {}
        /\ \A a \in 1..Len(config_accounts) : WellFormed(config_accounts[a])
        /\ pc \notin {"gui_raised", "view_raised"}

\* C7 (as claimed): a failed write to error.log is swallowed: bootstrap never
\* raises, and no fetch_data call raises OSError instead of returning.
C7_LogFailureSwallowed ==
    /\ pc # "boot_raised"
    /\ \A i \in 1..Len(tasks) :
          Finished(tasks[i]) => ~ (tasks[i].how = "raised" /\ tasks[i].exc = "OSError")

\* C8 (as claimed): a view of a report name that is not in ENDPOINTS submits
\* no fetch to the pool.
C8_UnknownReportNotDispatched ==
    (InView /\ endpoint \notin DOMAIN ENDPOINTS) => futures = <<>>

\* C9 (as claimed): a consumed result is written as an ERROR line exactly when
\* fetch_data returned its failure value, and a decoded body, whatever its
\* shape, is written as a payload without its "data" envelope.
C9_RoutedByFetchOutcome ==
    \A i \in 1..Len(tasks) : tasks[i].st = "consumed" =>
        /\ ErrorLines(i) # {} <=> ReturnedFailure(i)
        /\ FetchSucceeded(i) =>
              \E k \in PayloadLines(i) : txt[k].payload = Unwrapped(tasks[i].res)

\* the number of scalar leaves of a JSON value
RECURSIVE NumLeaves(_)
RECURSIVE SumLeaves(_, _)
SumLeaves(vs, i) == IF i > Len(vs) THEN 0 ELSE NumLeaves(vs[i]) + SumLeaves(vs, i + 1)
NumLeaves(v) ==
    IF IsDict(v) THEN SumLeaves([i \in 1..Len(v.kv) |-> v.kv[i][2]], 1)
    ELSE IF IsList(v) THEN SumLeaves(v.items, 1)
    ELSE 1

\* the keys used anywhere in a JSON value
RECURSIVE KeysOf(_)
KeysOf(v) ==
    IF IsDict(v) THEN {v.kv[i][1] : i \in 1..Len(v.kv)}
                      \cup UNION {KeysOf(v.kv[i][2]) : i \in 1..Len(v.kv)}
    ELSE IF IsList(v) THEN UNION {KeysOf(v.items[i]) : i \in 1..Len(v.items)}
    ELSE {}

\* every two items of a flatten_json result have different paths
DistinctPaths(out) == \A i, j \in 1..Len(out) : i # j => out[i][1] # out[j][1]
\* one item per scalar leaf, each under a path of its own
OneEntryPerLeaf(v, out) == Len(out) = NumLeaves(v) /\ DistinctPaths(out)
\* a key that is not empty and holds neither "." nor "["
PlainKey(k) == k # <<>> /\ \A i \in 1..Len(k) : k[i] \notin {".", "["}

\* C10 (as claimed): for every JSON value flatten_json gives one item per
\* scalar leaf, no two under one path.
C10_OneEntryPerLeaf ==
    fl_pc = "returned" => OneEntryPerLeaf(fl_obj, fl_out)

\* C10 (amended): the same for every JSON value whose object keys are not
\* empty and hold neither "." nor "[".
C10_OneEntryPerLeafPlainKeys ==
    (fl_pc = "returned" /\ \A k \in KeysOf(fl_obj) : PlainKey(k))
        => OneEntryPerLeaf(fl_obj, fl_out)

\* a flattened object with plain keys that holds a list of two scalars
C10_Witness ==
    /\ fl_pc = "returned"
    /\ IsDict(fl_obj)
    /\ \A k \in KeysOf(fl_obj) : PlainKey(k)
    /\ \E i \in 1..Len(fl_obj.kv) :
          IsList(fl_obj.kv[i][2]) /\ Len(fl_obj.kv[i][2].items) = 2
    /\ Len(fl_out) = 2

\* the (path, value) pairs of the scalar leaves of v in depth-first order, by
\* each object's key order and each array's index order; the path of a leaf
\* is made of ".key" for an object step and "[i]" for an array step, the
\* separator of the step at the root left out
RECURSIVE LeafEntries(_, _, _)
RECURSIVE LeafEntriesOf(_, _, _, _)
LeafEntriesOf(v, i, path, atRoot) ==
    IF IsDict(v)
    THEN IF i > Len(v.kv) THEN <<>>
         ELSE LeafEntries(v.kv[i][2],
                          IF atRoot THEN v.kv[i][1] ELSE path \o <<".">> \o v.kv[i][1], FALSE)
              \o LeafEntriesOf(v, i + 1, path, atRoot)
    ELSE IF i > Len(v.items) THEN <<>>
         ELSE LeafEntries(v.items[i], path \o <<"[">> \o IntStr(i - 1) \o <<"]">>, FALSE)
              \o LeafEntriesOf(v, i + 1, path, atRoot)
LeafEntries(v, path, atRoot) ==
    IF IsDict(v) \/ IsList(v) THEN LeafEntriesOf(v, 1, path, atRoot)
    ELSE << <<path, v>> >>

\* a.b=1, c[0]=10, c[1]=20
ExampleEntries ==
    << <<K_a_b, Num(1)>>, << <<"c", "[", "0", "]">>, Num(10)>>,
       << <<"c", "[", "1", "]">>, Num(20)>> >>

\* C11 (as claimed): for every JSON value the items of flatten_json are the
\* leaves in depth-first order, each under the path of its position, and a
\* scalar gives the one item with the empty path.
C11_DepthFirstPaths ==
    fl_pc = "returned" =>
        /\ fl_out = LeafEntries(fl_obj, <<>>, TRUE)
        /\ ~ (IsDict(fl_obj) \/ IsList(fl_obj)) => fl_out = << <<<<>>, fl_obj>> >>

\* C11 (amended): the same for every JSON value whose object keys are not
\* empty and hold neither "." nor "["; {"a": {"b": 1}, "c": [10, 20]} gives
\* a.b=1, c[0]=10, c[1]=20 in that order.
C11_DepthFirstPathsPlainKeys ==
    (fl_pc = "returned" /\ \A k \in KeysOf(fl_obj) : PlainKey(k)) =>
        /\ fl_out = LeafEntries(fl_obj, <<>>, TRUE)
        /\ ~ (IsDict(fl_obj) \/ IsList(fl_obj)) => fl_out = << <<<<>>, fl_obj>> >>
        /\ fl_obj = FlattenExample => fl_out = ExampleEntries

\* the example flattened
C11_Witness ==
    fl_pc = "returned" /\ fl_obj = FlattenExample /\ Len(fl_out) = Len(ExampleEntries)

\* ---- the reverse of flatten_json: from (path, value) items to a JSON value
IsDigit(c)  == \E d \in 1..Len(Digit) : Digit[d] = c
DigitVal(c) == (CHOOSE d \in 1..Len(Digit) : Digit[d] = c) - 1
RECURSIVE ParseNat(_, _)
ParseNat(cs, acc) ==
    IF cs = <<>> THEN acc ELSE ParseNat(Tail(cs), acc * 10 + DigitVal(Head(cs)))

\* the length of the longest prefix of p that holds no character of stop
RECURSIVE Span(_, _)
Span(p, stop) == IF p = <<>> \/ Head(p) \in stop THEN 0 ELSE 1 + Span(Tail(p), stop)

\* p starts with "[", digits, "]"
IsIndex(p) ==
    LET n == Span(Tail(p), {"]"}) IN
    /\ Head(p) = "["
    /\ n >= 1 /\ n + 2 <= Len(p)
    /\ \A j \in 2..(n + 1) : IsDigit(p[j])

\* the steps a path spells: "[i]" is the array step i; a key step runs up to
\* the next "." or "[", after the "." that separates it from the step before
RECURSIVE PathSteps(_, _)
PathSteps(p, first) ==
    IF p = <<>> THEN <<>>
    ELSE IF Head(p) = "[" /\ IsIndex(p)
    THEN LET n == Span(Tail(p), {"]"}) IN
         <<[kind |-> "idx", at |-> ParseNat(SubSeq(p, 2, n + 1), 0)]>>
             \o PathSteps(SubSeq(p, n + 3, Len(p)), FALSE)
    ELSE IF Head(p) = "[" THEN <<[kind |-> "key", at |-> p]>>
    ELSE LET q == IF ~ first /\ Head(p) = "." THEN Tail(p) ELSE p
             n == Span(q, {".", "["})
         IN  <<[kind |-> "key", at |-> SubSeq(q, 1, n)]>>
                 \o PathSteps(SubSeq(q, n + 1, Len(q)), FALSE)

\* the first steps of the items es, each once, in the order they come up
RECURSIVE FirstSteps(_, _)
FirstSteps(es, seen) ==
    IF es = <<>> THEN seen
    ELSE FirstSteps(Tail(es), IF InList(es[1][1][1], seen) THEN seen
                              ELSE Append(seen, es[1][1][1]))

\* the items of es under the first step st, that step taken off their paths
Under(es, st) ==
    LET sel == SelectSeq(es, LAMBDA e : e[1][1] = st)
    IN  [j \in 1..Len(sel) |-> <<Tail(sel[j][1]), sel[j][2]>>]

Max(S) == CHOOSE x \in S : \A y \in S : y <= x

\* the JSON value that the items es (steps, value) describe
RECURSIVE Rebuild(_)
Rebuild(es) ==
    IF es = <<>> THEN Obj(<<>>)
    ELSE IF es[1][1] = <<>> THEN es[1][2]
    ELSE LET kind == es[1][1][1].kind
             same == SelectSeq(es, LAMBDA e : e[1] # <<>> /\ e[1][1].kind = kind)
             sts  == FirstSteps(same, <<>>)
         IN  IF kind = "key"
             THEN Obj([j \in 1..Len(sts) |-> <<sts[j].at, Rebuild(Under(same, sts[j]))>>])
             ELSE Arr([j \in 1..(Max({sts[k].at : k \in 1..Len(sts)}) + 1) |->
                          Rebuild(Under(same, [kind |-> "idx", at |-> j - 1]))])

Unflatten(out) ==
    Rebuild([j \in 1..Len(out) |-> <<PathSteps(out[j][1], TRUE), out[j][2]>>])

\* no object and no array of v is empty
RECURSIVE NoEmptyContainer(_)
NoEmptyContainer(v) ==
    IF IsDict(v) THEN v.kv # <<>> /\ \A i \in 1..Len(v.kv) : NoEmptyContainer(v.kv[i][2])
    ELSE IF IsList(v) THEN v.items # <<>> /\ \A i \in 1..Len(v.items) : NoEmptyContainer(v.items[i])
    ELSE TRUE

\* C12 (as claimed): for every JSON value, the nested structure rebuilt from
\* the items of flatten_json is the value itself.
C12_RoundTrip ==
    fl_pc = "returned" => Unflatten(fl_out) = fl_obj

\* C12 (amended): the same for every JSON value that has no empty object or
\* array and whose object keys are not empty and hold neither "." nor "[".
C12_RoundTripPlainKeysNoEmpty ==
    (/\ fl_pc = "returned"
     /\ NoEmptyContainer(fl_obj)
     /\ \A k \in KeysOf(fl_obj) : PlainKey(k))
        => Unflatten(fl_out) = fl_obj

\* a flattened array that holds an object, rebuilt from its items
C12_Witness ==
    /\ fl_pc = "returned"
    /\ IsList(fl_obj) /\ NoEmptyContainer(fl_obj)
    /\ \A k \in KeysOf(fl_obj) : PlainKey(k)
    /\ \E i \in 1..Len(fl_obj.items) : IsDict(fl_obj.items[i])
    /\ Unflatten(fl_out) = fl_obj

\* the store ids recorded in account_store_map, over all names
RecordedStores == UNION {Range(account_store_map[n]) : n \in DOMAIN account_store_map}

\* C13 (as claimed): once bootstrap has returned, all_stores is the union of
\* the store lists recorded in account_store_map, and every store id of
\* all_stores is in the recorded list of an account with Status OK or EMPTY;
\* also when two entries have the same name.
C13_AllStoresIsUnionOfMap ==
    BootReturned =>
        /\ all_stores = RecordedStores
        /\ \A sid \in all_stores :
              \E i \in 1..Len(cfg) :
                  /\ WellFormed(cfg[i]) /\ "Status" \in cfg[i].keys
                  /\ cfg[i].Status \in {"OK", "EMPTY"}
                  /\ cfg[i].Name \in DOMAIN account_store_map
                  /\ InList(sid, account_store_map[cfg[i].Name])

\* C14: at every moment of a batch at most max_workers fetches are running
\* in the pool, however many were submitted; a submitted fetch is started
\* only while fewer than max_workers are running, the others wait.
C14_AtMostTenInFlight ==
    [][ /\ NumRunning' <= max_workers
        /\ \A i \in 1..Len(tasks) :
              (Len(tasks') = Len(tasks) /\ tasks[i].st = "queued" /\ tasks'[i].st = "running")
                  => NumRunning < max_workers ]_vars

\* max_workers fetches run and one more waits in the queue
C14_Witness ==
    /\ NumRunning = max_workers
    /\ \E i \in 1..Len(tasks) : tasks[i].st = "queued"

\* the place of future i in the order of completion
CompletedAt(i) == CHOOSE k \in 1..Len(completed) : completed[k] = i
\* the header lines of the view and the future a header line was written for
Headers == {k \in 1..Len(txt) : txt[k].line = "header"}
HeaderTask(k) == CHOOSE i \in 1..Len(futures) :
                    futures[i].sid = txt[k].sid /\ futures[i].aname = txt[k].aname

\* C15 (as claimed): the results are written in the order in which their
\* fetches completed.
C15_WrittenInCompletionOrder ==
    \A k1, k2 \in Headers :
        k1 < k2 => CompletedAt(HeaderTask(k1)) < CompletedAt(HeaderTask(k2))

\* C15 (amended): the result loop takes a finished fetch and writes its
\* header at once, whatever the other fetches of the batch are doing; it takes
\* the fetches that had finished when it started first, in any order, and
\* after them the fetches in the order in which they finished.
C15_WrittenAsCompletedYields ==
    [][ \A i \in 1..Len(tasks) :
          (Len(tasks') = Len(tasks) /\ tasks[i].st = "done" /\ tasks'[i].st = "consumed") =>
              /\ \/ i \in ac_first
                 \/ /\ ac_first = {}
                    /\ \A j \in 1..Len(tasks) :
                          tasks[j].st = "done" => CompletedAt(i) <= CompletedAt(j)
              /\ tasks[i].how = "returned" =>
                    /\ Len(txt') > Len(txt)
                    /\ txt'[Len(txt) + 1] = [line |-> "header", aname |-> futures[i].aname,
                                              sid |-> futures[i].sid] ]_vars

\* the result of the fetch submitted second is on the view while the fetch
\* submitted first is still running
C15_Witness ==
    /\ pc = "collect"
    /\ \E i, j \in 1..Len(tasks) :
          /\ i < j
          /\ tasks[i].st = "running"
          /\ tasks[j].st = "consumed" /\ PayloadLines(j) # {}

\* the lines that render the result of future i
Rendered(i) == ErrorLines(i) \cup PayloadLines(i)

\* C16 (as claimed): every fetch of a batch ends with a value, the body or the
\* failure value, never with an exception; no result is rendered twice; and
\* when the view is over it ended normally, with every result consumed and
\* rendered once.
C16_EveryFetchRenderedOnce ==
    /\ \A i \in 1..Len(tasks) :
          /\ Finished(tasks[i]) => tasks[i].how = "returned"
          /\ Cardinality(Rendered(i)) <= 1
    /\ ViewOver =>
          /\ pc = "view_done"
          /\ \A i \in 1..Len(tasks) :
                tasks[i].st = "consumed" /\ Cardinality(Rendered(i)) = 1

\* an auxiliary view has got through its submit loop
AuxSubmitted == pc \in {"aux_submitted", "aux_collect", "aux_done"} /\ futures # <<>>

\* how often the store list of account a holds sid, and how many fetches of
\* sid were submitted with the credentials of account a
ListedBy(a, sid) ==
    Cardinality({j \in 1..Len(StoreIDsOf(config_accounts[a])) :
                    StoreIDsOf(config_accounts[a])[j] = sid})
FetchesBy(a, sid) ==
    Cardinality({i \in 1..Len(futures) :
                    /\ futures[i].sid = sid
                    /\ futures[i].cid = config_accounts[a].ClientID
                    /\ futures[i].ckey = config_accounts[a].ClientKEY})

\* the result loop of Sales Today can take the result of future i: the fetch
\* returned, and the loop finds a value to keep in what it returned
SalesTakes(i) == tasks[i].how = "returned" /\ ~ SalesRound(tasks[i].res).raised

\* what Sales Today stores for the result of future i
SalesValue(i) == SalesRound(tasks[i].res).val

\* the lines of txt that show the value of a store
SaleLines == {k \in 1..Len(txt) : txt[k].line = "sale"}

\* the fetch of store sid that completed last
LastCompleted(sid) ==
    CHOOSE i \in 1..Len(futures) :
        /\ futures[i].sid = sid
        /\ \A j \in 1..Len(futures) :
              futures[j].sid = sid => CompletedAt(j) <= CompletedAt(i)

\* C17 (as claimed): an auxiliary view fetches a selected store that k
\* accounts list k times, once with the credentials of each, and no other
\* store; when Sales Today is over, the value it shows for a store is that
\* of the fetch of the store that completed last.
C17_LastCompletedWins ==
    /\ AuxSubmitted =>
          \A sid \in StoreIds :
              /\ Fetches(sid) = IF InList(sid, stores) THEN Cardinality(Owners(sid)) ELSE 0
              /\ InList(sid, stores) => \A a \in Owners(sid) : FetchesBy(a, sid) = 1
    /\ (pc = "aux_done" /\ aux = "sales") =>
          \A sid \in DOMAIN sales_map : sales_map[sid] = SalesValue(LastCompleted(sid))

\* C17 (amended): an auxiliary view fetches a selected store once for every
\* time an account's store list holds it, with that account's credentials,
\* and no other store.  In Sales Today a result the loop takes either
\* replaces the value kept for its store, whatever the order of completion,
\* or, when the fetch raised or the loop finds no value to keep in what it
\* returned, ends the view with an exception, the values kept as they were
\* and nothing added to the window; values are shown only when the loop has
\* ended without an exception, and then they are the ones kept, one line
\* for a store.
C17_LastTakenWins ==
    [][ /\ AuxSubmitted' =>
              \A sid \in StoreIds : \A a \in 1..Len(config_accounts') :
                  FetchesBy(a, sid)' = IF InList(sid, stores') THEN ListedBy(a, sid)' ELSE 0
        /\ \A i \in 1..Len(tasks) :
              (/\ aux = "sales" /\ pc = "aux_collect"
               /\ tasks[i].st = "done" /\ tasks'[i].st = "consumed") =>
                  IF SalesTakes(i)
                  THEN /\ pc' = "aux_collect"
                       /\ DOMAIN sales_map' = DOMAIN sales_map \cup {futures[i].sid}
                       /\ \A sid \in DOMAIN sales_map' :
                             sales_map'[sid] = IF sid = futures[i].sid THEN SalesValue(i)
                                               ELSE sales_map[sid]
                  ELSE /\ pc' = "aux_raised"
                       /\ sales_map' = sales_map
                       /\ txt' = txt
        /\ (aux = "sales" /\ pc = "aux_collect" /\ pc' = "aux_done") =>
              /\ sales_map' = sales_map
              /\ \A sid \in DOMAIN sales_map :
                    Cardinality({k \in SaleLines' : txt'[k].sid = sid}) = 1
              /\ \A k \in SaleLines' :
                    txt'[k].sid \in DOMAIN sales_map /\ txt'[k].val = sales_map[txt'[k].sid]
        /\ (aux' = "sales" /\ pc' # "aux_done") => SaleLines' = {} ]_vars

\* Sales Today is over; two accounts list a store, their fetches of it gave
\* different values, and the one shown is that of the fetch that completed first
C17_Witness ==
    /\ pc = "aux_done" /\ aux = "sales"
    /\ \E i, j \in 1..Len(futures) :
          /\ futures[i].sid = futures[j].sid /\ futures[i].cid # futures[j].cid
          /\ CompletedAt(i) < CompletedAt(j)
          /\ SalesValue(i) # SalesValue(j)
          /\ sales_map[futures[i].sid] = SalesValue(i)
====
